---- MODULE Spec2Model ----
(***************************************************************************)
(* The StoreData derive of the datastore crate: the expansion of a record  *)
(* declaration into the StoreData / DataDescriptor / DataQuery companions  *)
(* (datastore_derive/src/storedata.rs) and the behaviour of the generated  *)
(* functions against the Writer / Reader / TypeWriter protocol             *)
(* (datastore/src/lib.rs).                                                 *)
(* Also: the scalar Read / Write impls of the test store                   *)
(* (datastore-test/tests/support/types.rs) and LazyStore::get              *)
(* (datastore/src/wrapper.rs).                                             *)
(***************************************************************************)
EXTENDS Integers, Sequences, FiniteSets, TLC

\* ------------------------------------------------------------------ bounds

\* Largest number of named fields of a declared record.
MaxFields == 2

\* Largest number of attributes on a declared record.
MaxAttrs == 2

\* Longest list of field types handed to expand_trait_bounds on its own.
MaxTypes == 4

\* Number of tasks that share one LazyStore.
MaxCallers == 2

\* Largest number of LazyStore::get calls one task makes.
MaxGets == 2

\* ------------------------------------------------------------- vocabulary

\* Identifiers a record may be given.
StructIdents == {"SomeData"}

\* Identifiers the fields of a record are drawn from (unique within a record).
FieldIdents == {"id", "name", "x"}

\* Field types (syn::Type, compared syntactically); the test store implements Read and
\* Write for u8 and i64 and not for usize.
FieldTypes == {"u8", "i64", "usize"}

\* Field types of the lists handed to expand_trait_bounds on its own.
BoundTypes == {"u8", "i64", "bool"}

\* The scalar types the test store implements Read and Write for.
ScalarTypes == {"bool", "i8", "i16", "i32", "i64", "u8", "u16", "u32", "u64", "f32", "f64"}

\* The values of a field type: two of each (a float stands by an integer; no operation
\* of the program computes with a field value).
ValuesOf(ty) ==
    CASE ty = "u8" -> {0, 255}
      [] ty = "i64" -> {-1, 0}
      [] ty = "bool" -> {0, 1}
      [] ty = "i8" -> {-128, 127}
      [] ty = "i16" -> {-32768, 32767}
      [] ty = "i32" -> {-65536, 65536}
      [] ty = "u16" -> {0, 65535}
      [] ty = "u32" -> {0, 65536}
      [] ty = "u64" -> {0, 65537}
      [] ty = "f32" -> {0, 1}
      [] ty = "f64" -> {0, 2}
      [] ty = "usize" -> {0, 7}

\* Error values a backend's Writer / Reader / TypeWriter may return.
Errors == {"E1", "E2"}

\* Attributes a declaration may carry: #[doc = ".."], #[datastore(name = "people")],
\* #[datastore(name = "name")], #[datastore(name = 5)], #[datastore(table = "t")].
AttrPool ==
    { [path |-> "doc", key |-> "", lit |-> "str", value |-> "text"],
      [path |-> "datastore", key |-> "name", lit |-> "str", value |-> "people"],
      [path |-> "datastore", key |-> "name", lit |-> "str", value |-> "name"],
      [path |-> "datastore", key |-> "name", lit |-> "int", value |-> "5"],
      [path |-> "datastore", key |-> "table", lit |-> "str", value |-> "t"] }

\* ---------------------------------------------------------------- helpers

Ok(v) == [ok |-> TRUE, val |-> v]
Err(e) == [ok |-> FALSE, err |-> e]

None == <<>>
Some(v) == <<v>>

SeqsUpTo(S, n) == UNION { [1..k -> S] : k \in 0..n }

Injective(s) == \A i, j \in 1..Len(s) : s[i] = s[j] => i = j

Range(s) == { s[i] : i \in 1..Len(s) }

\* Vec::contains
contains(vec, x) == \E i \in 1..Len(vec) : vec[i] = x

\* Ident::to_string: the text of the identifier (the identifiers here are plain ones,
\* written as their text).
to_string(ident) == ident

\* Iterator::zip: pairs up to the shorter of the two.
zip(xs, ys) ==
    LET n == IF Len(xs) < Len(ys) THEN Len(xs) ELSE Len(ys)
    IN  [i \in 1..n |-> <<xs[i], ys[i]>>]

\* ------------------------------------------------- the derive (build time)

\* Helper attributes the derive registers: #[proc_macro_derive(StoreData)] names none.
HelperAttributes == {}

\* Attr::parse: `(key = value)`; only `name = "<string literal>"` is accepted.
Attr_parse(tokens) ==
    IF tokens.key = "name"
    THEN IF tokens.lit = "str"
         THEN Ok([kind |-> "Name", name |-> tokens.value])
         ELSE Err("the name attribute only accepts a string literal")
    ELSE Err("unknwon attribute")

\* Attrs::name: the first Attr::Name of the list, if any.
Attrs_name(attrs) ==
    LET hits == { i \in 1..Len(attrs) : attrs[i].kind = "Name" }
    IN  IF hits = {}
        THEN None
        ELSE Some(attrs[CHOOSE i \in hits : \A j \in hits : i <= j].name)

\* Faulty variant of expand_trait_bounds: the `contains` test is dropped, every occurrence kept.
expand_trait_bounds_every(types) == types

\* Faulty variant of trait_bounds_loop: a type met again is moved to the end, so the list
\* keeps the last occurrence of each type.
RECURSIVE trait_bounds_loop_last(_, _, _)
trait_bounds_loop_last(types, i, bounds) ==
    IF i > Len(types)
    THEN bounds
    ELSE trait_bounds_loop_last(types, i + 1,
             Append(SelectSeq(bounds, LAMBDA b : b # types[i]), types[i]))

\* expand_trait_bounds: one `ty: Write<T> + Read<T>` requirement per type kept by the
\* loop, which pushes a type unless the list built so far contains it.
RECURSIVE trait_bounds_loop(_, _, _)
trait_bounds_loop(types, i, bounds) ==
    IF i > Len(types)
    THEN bounds
    ELSE IF ~contains(bounds, types[i])
         THEN trait_bounds_loop(types, i + 1, Append(bounds, types[i]))
         ELSE trait_bounds_loop(types, i + 1, bounds)

expand_trait_bounds(types) == trait_bounds_loop(types, 1, <<>>)

\* Faulty variant of storedata_write_impl: the first field is skipped.
storedata_write_impl_skip(idents) ==
    [i \in 1..(Len(idents) - 1) |->
        [key |-> to_string(idents[i + 1]), field |-> idents[i + 1]]]

\* Faulty variant of storedata_write_impl: the fields are written last to first.
storedata_write_impl_reversed(idents) ==
    [i \in 1..Len(idents) |->
        [key |-> to_string(idents[Len(idents) + 1 - i]), field |-> idents[Len(idents) + 1 - i]]]

\* The statements of the generated StoreData::write, one per field:
\*   writer.write_field(#name, &self.#ident)?;
storedata_write_impl(idents) ==
    [i \in 1..Len(idents) |-> [key |-> to_string(idents[i]), field |-> idents[i]]]

\* Faulty variant of storedata_read_impl: the value read under a field's name is bound to the
\* local of another field.
storedata_read_impl_crossed(idents) ==
    [i \in 1..Len(idents) |->
        [local |-> idents[Len(idents) + 1 - i], key |-> to_string(idents[i])]]

\* The statements of the generated StoreData::read, one per field:
\*   let #ident = reader.read_field(#name)?;
storedata_read_impl(idents) ==
    [i \in 1..Len(idents) |-> [local |-> idents[i], key |-> to_string(idents[i])]]

\* Faulty variant of expand_storedata_impl: the where-clause carries no requirement on
\* the field types.
expand_storedata_impl_unbounded(ident, idents, types) ==
    [ self_ty      |-> ident,
      trait_bounds |-> <<>>,
      Descriptor   |-> ident \o "Descriptor",
      Query        |-> ident \o "Query",
      write_impl   |-> storedata_write_impl(idents),
      read_impl    |-> storedata_read_impl(idents),
      ctor         |-> idents ]

\* expand_storedata_impl: the generated `impl StoreData<T> for #ident`.
expand_storedata_impl(ident, idents, types) ==
    [ self_ty      |-> ident,
      trait_bounds |-> expand_trait_bounds(types),
      Descriptor   |-> ident \o "Descriptor",
      Query        |-> ident \o "Query",
      write_impl   |-> storedata_write_impl(idents),
      read_impl    |-> storedata_read_impl(idents),
      ctor         |-> idents ]

\* Faulty variant of descriptor_write_impl: the fields are described last to first.
descriptor_write_impl_reversed(idents, types) ==
    LET pairs == zip(idents, types)
        n == Len(pairs)
    IN  [i \in 1..n |-> [key |-> to_string(pairs[n + 1 - i][1]), ty |-> pairs[n + 1 - i][2]]]

\* Faulty variant of descriptor_write_impl: a record without fields is described by a
\* placeholder field.
descriptor_write_impl_placeholder(idents, types) ==
    LET pairs == zip(idents, types)
    IN  IF Len(pairs) = 0
        THEN << [key |-> "_", ty |-> "bool"] >>
        ELSE [i \in 1..Len(pairs) |-> [key |-> to_string(pairs[i][1]), ty |-> pairs[i][2]]]

\* The statements of the generated DataDescriptor::write, one per (field, type):
\*   writer.write_field::<#ty>(#name)?;
descriptor_write_impl(idents, types) ==
    LET pairs == zip(idents, types)
    IN  [i \in 1..Len(pairs) |-> [key |-> to_string(pairs[i][1]), ty |-> pairs[i][2]]]

\* The name the generated ident() returns: the override, else the record's identifier.
descriptor_name(ident, name) ==
    IF name # None THEN name[1] ELSE to_string(ident)

\* expand_datadescriptor_impl: the generated unit struct and its DataDescriptor impl.
expand_datadescriptor_impl(ident, idents, types, name) ==
    [ self_ty      |-> ident \o "Descriptor",
      trait_bounds |-> expand_trait_bounds(types),
      name         |-> descriptor_name(ident, name),
      write_impl   |-> descriptor_write_impl(idents, types) ]

\* The fields of the generated query struct: `#ident: Option<#ty>`.
dataquery_fields(idents, types) ==
    LET pairs == zip(idents, types)
    IN  [i \in 1..Len(pairs) |-> [ident |-> pairs[i][1], ty |-> pairs[i][2]]]

\* The setters of the generated query struct:
\*   pub fn #ident(mut self, t: #ty) -> Self { self.#ident = Some(t); self }
dataquery_methods(idents, types) ==
    LET pairs == zip(idents, types)
    IN  [i \in 1..Len(pairs) |->
            [name |-> pairs[i][1], arg_ty |-> pairs[i][2], field |-> pairs[i][1]]]

\* Faulty variant of dataquery_write_impl: a slot is written under the name of another field.
dataquery_write_impl_crossed(idents) ==
    [i \in 1..Len(idents) |->
        [field |-> idents[Len(idents) + 1 - i], key |-> to_string(idents[i])]]

\* The statements of the generated DataQuery::write, one per field:
\*   if let Some(value) = self.#ident.as_ref() { writer.write_field(#name, value)?; }
dataquery_write_impl(idents) ==
    [i \in 1..Len(idents) |-> [field |-> idents[i], key |-> to_string(idents[i])]]

\* Faulty variant of expand_dataquery_impl: the query impl states one requirement per
\* field instead of the aggregated list.
expand_dataquery_impl_perfield(ident, idents, types) ==
    [ self_ty      |-> ident \o "Query",
      trait_bounds |-> types,
      fields       |-> dataquery_fields(idents, types),
      methods      |-> dataquery_methods(idents, types),
      write_impl   |-> dataquery_write_impl(idents) ]

\* expand_dataquery_impl: the generated query struct, its setters and DataQuery impl.
expand_dataquery_impl(ident, idents, types) ==
    [ self_ty      |-> ident \o "Query",
      trait_bounds |-> expand_trait_bounds(types),
      fields       |-> dataquery_fields(idents, types),
      methods      |-> dataquery_methods(idents, types),
      write_impl   |-> dataquery_write_impl(idents) ]

\* expand_macro: the `datastore` attributes are parsed (a parse error is the whole
\* expansion), the named fields are collected in declaration order, and the three
\* companions are generated from the same two lists.
expand_macro(input) ==
    LET tokens == SelectSeq(input.attrs, LAMBDA a : a.path = "datastore")
        parsed == [i \in 1..Len(tokens) |-> Attr_parse(tokens[i])]
        bad    == { i \in 1..Len(parsed) : ~parsed[i].ok }
        attrs  == [i \in 1..Len(parsed) |-> parsed[i].val]
        types  == input.types
        idents == input.idents
    IN  IF bad # {}
        THEN Err(parsed[CHOOSE i \in bad : \A j \in bad : i <= j].err)
        ELSE Ok([ storedata  |-> expand_storedata_impl(input.ident, idents, types),
                  descriptor |-> expand_datadescriptor_impl(input.ident, idents, types,
                                                            Attrs_name(attrs)),
                  query      |-> expand_dataquery_impl(input.ident, idents, types) ])

\* The derive entry point, as the compiler drives it: an attribute of the declaration
\* that is neither built in (doc) nor registered by the derive is a compile error
\* before any expansion is used; otherwise the declaration expands by expand_macro.
storedata(input) ==
    IF \E i \in 1..Len(input.attrs) :
          input.attrs[i].path # "doc" /\ input.attrs[i].path \notin HelperAttributes
    THEN Err("cannot find attribute in this scope")
    ELSE expand_macro(input)

\* ------------------------------------------- the generated code (run time)

\* Write::write_type of the scalar field types: the TypeWriter tag call each one makes.
write_type(ty) ==
    CASE ty = "u8" -> "U8"
      [] ty = "i64" -> "I64"
      [] ty = "bool" -> "Bool"

\* ty: Write<__Store> + Read<__Store>: the test store has the two impls for ty.
Implements(ty) == ty \in ScalarTypes

\* The where-clause of a generated impl, at a use with T = __Store: the build accepts
\* a call of one of the impl's functions only if every requirement holds.
where_clause(trait_bounds) == \A i \in 1..Len(trait_bounds) : Implements(trait_bounds[i])

\* A backend's sink (Writer or TypeWriter) is known by its answers only: its
\* write_field returns Err(err) on call number failAt (0: on no call), Ok(()) otherwise.
Sinks == [failAt : 0..MaxFields, err : Errors]

\* A backend's Reader: read_field returns Err(err) on call number failAt, and
\* Ok(answers[k]) on any other call number k.
ReaderAnswer(reader, k) ==
    IF reader.failAt = k THEN Err(reader.err) ELSE Ok(reader.answers[k])

\* Faulty variant of storedata_write_run: the result of write_field is dropped instead of
\* returned by `?`.
RECURSIVE storedata_write_run_noabort(_, _, _, _, _)
storedata_write_run_noabort(stmts, i, self, writer, calls) ==
    IF i > Len(stmts)
    THEN [calls |-> calls, result |-> Ok("unit")]
    ELSE storedata_write_run_noabort(stmts, i + 1, self, writer,
             Append(calls, [key |-> stmts[i].key, value |-> self[stmts[i].field]]))

\* The generated StoreData::write: the statements in order, `?` returning the first
\* error, then Ok(()).
RECURSIVE storedata_write_run(_, _, _, _, _)
storedata_write_run(stmts, i, self, writer, calls) ==
    IF i > Len(stmts)
    THEN [calls |-> calls, result |-> Ok("unit")]
    ELSE LET issued == Append(calls, [key |-> stmts[i].key, value |-> self[stmts[i].field]])
         IN  IF writer.failAt = Len(issued)
             THEN [calls |-> issued, result |-> Err(writer.err)]
             ELSE storedata_write_run(stmts, i + 1, self, writer, issued)

StoreData_write(code, self, writer) ==
    storedata_write_run(code.write_impl, 1, self, writer, <<>>)

\* Faulty variant of storedata_read_run: a failed read_field leaves the local at zero
\* (unwrap_or_default) instead of returning by `?`.
RECURSIVE storedata_read_run_default(_, _, _, _, _, _)
storedata_read_run_default(stmts, ctor, i, reader, calls, locals) ==
    IF i > Len(stmts)
    THEN [calls |-> calls, result |-> Ok([f \in Range(ctor) |-> locals[f]])]
    ELSE LET issued == Append(calls, [key |-> stmts[i].key])
             answer == ReaderAnswer(reader, Len(issued))
             value  == IF answer.ok THEN answer.val ELSE 0
         IN  storedata_read_run_default(stmts, ctor, i + 1, reader, issued,
                 [l \in DOMAIN locals \cup {stmts[i].local} |->
                     IF l = stmts[i].local THEN value ELSE locals[l]])

\* The generated StoreData::read: one local per statement, `?` returning the first
\* error, then Ok(Self { idents.. }) built from the locals of the same names.
RECURSIVE storedata_read_run(_, _, _, _, _, _)
storedata_read_run(stmts, ctor, i, reader, calls, locals) ==
    IF i > Len(stmts)
    THEN [calls |-> calls, result |-> Ok([f \in Range(ctor) |-> locals[f]])]
    ELSE LET issued == Append(calls, [key |-> stmts[i].key])
             answer == ReaderAnswer(reader, Len(issued))
         IN  IF ~answer.ok
             THEN [calls |-> issued, result |-> Err(answer.err)]
             ELSE storedata_read_run(stmts, ctor, i + 1, reader, issued,
                      [l \in DOMAIN locals \cup {stmts[i].local} |->
                          IF l = stmts[i].local THEN answer.val ELSE locals[l]])

StoreData_read(code, reader) ==
    storedata_read_run(code.read_impl, code.ctor, 1, reader, <<>>, <<>>)

\* The generated DataDescriptor::ident.
Descriptor_ident(code) == code.name

\* The generated DataDescriptor::write; each write_field::<ty>(key) call is recorded
\* with the tag that ty reports through write_type.
RECURSIVE descriptor_write_run(_, _, _, _)
descriptor_write_run(stmts, i, writer, calls) ==
    IF i > Len(stmts)
    THEN [calls |-> calls, result |-> Ok("unit")]
    ELSE LET issued == Append(calls, [key |-> stmts[i].key, tag |-> write_type(stmts[i].ty)])
         IN  IF writer.failAt = Len(issued)
             THEN [calls |-> issued, result |-> Err(writer.err)]
             ELSE descriptor_write_run(stmts, i + 1, writer, issued)

Descriptor_write(code, writer) == descriptor_write_run(code.write_impl, 1, writer, <<>>)

\* #[derive(Default)] of the generated query struct: every slot None.
Query_default(code) ==
    [f \in { code.fields[i].ident : i \in 1..Len(code.fields) } |-> None]

\* Faulty variant of Query_set: the setter builds a fresh value around its own slot
\* (Self { field: Some(t), ..Default::default() }).
Query_set_reset(code, self, m, t) ==
    [f \in DOMAIN self |-> IF f = code.methods[m].field THEN Some(t) ELSE None]

\* The generated setter number m, called on the builder `self` with the value t.
Query_set(code, self, m, t) ==
    [self EXCEPT ![code.methods[m].field] = Some(t)]

\* Faulty variant of dataquery_write_run: the result of write_field is dropped instead
\* of returned by `?`.
RECURSIVE dataquery_write_run_noabort(_, _, _, _, _)
dataquery_write_run_noabort(stmts, i, self, writer, calls) ==
    IF i > Len(stmts)
    THEN [calls |-> calls, result |-> Ok("unit")]
    ELSE IF self[stmts[i].field] # None
         THEN dataquery_write_run_noabort(stmts, i + 1, self, writer,
                  Append(calls, [key |-> stmts[i].key, value |-> self[stmts[i].field][1]]))
         ELSE dataquery_write_run_noabort(stmts, i + 1, self, writer, calls)

\* The generated DataQuery::write: a write_field per slot that is Some, in order.
RECURSIVE dataquery_write_run(_, _, _, _, _)
dataquery_write_run(stmts, i, self, writer, calls) ==
    IF i > Len(stmts)
    THEN [calls |-> calls, result |-> Ok("unit")]
    ELSE IF self[stmts[i].field] # None
         THEN LET issued == Append(calls, [key |-> stmts[i].key,
                                           value |-> self[stmts[i].field][1]])
              IN  IF writer.failAt = Len(issued)
                  THEN [calls |-> issued, result |-> Err(writer.err)]
                  ELSE dataquery_write_run(stmts, i + 1, self, writer, issued)
         ELSE dataquery_write_run(stmts, i + 1, self, writer, calls)

Query_write(code, self, writer) == dataquery_write_run(code.write_impl, 1, self, writer, <<>>)

\* ------------------------------------------- the scalar Read / Write impls

\* Faulty variant of Write_write: the impl for u16 widens to the next unsigned tag.
Write_write_widened(ty, self) ==
    CASE ty = "bool" -> << [method |-> "write_bool", arg |-> self] >>
      [] ty = "i8" -> << [method |-> "write_i8", arg |-> self] >>
      [] ty = "i16" -> << [method |-> "write_i16", arg |-> self] >>
      [] ty = "i32" -> << [method |-> "write_i32", arg |-> self] >>
      [] ty = "i64" -> << [method |-> "write_i64", arg |-> self] >>
      [] ty = "u8" -> << [method |-> "write_u8", arg |-> self] >>
      [] ty = "u16" -> << [method |-> "write_u32", arg |-> self] >>
      [] ty = "u32" -> << [method |-> "write_u32", arg |-> self] >>
      [] ty = "u64" -> << [method |-> "write_u64", arg |-> self] >>
      [] ty = "f32" -> << [method |-> "write_f32", arg |-> self] >>
      [] ty = "f64" -> << [method |-> "write_f64", arg |-> self] >>

\* <ty as Write<__Store>>::write(&self, writer): the calls it makes on the Writer.
Write_write(ty, self) ==
    CASE ty = "bool" -> << [method |-> "write_bool", arg |-> self] >>
      [] ty = "i8" -> << [method |-> "write_i8", arg |-> self] >>
      [] ty = "i16" -> << [method |-> "write_i16", arg |-> self] >>
      [] ty = "i32" -> << [method |-> "write_i32", arg |-> self] >>
      [] ty = "i64" -> << [method |-> "write_i64", arg |-> self] >>
      [] ty = "u8" -> << [method |-> "write_u8", arg |-> self] >>
      [] ty = "u16" -> << [method |-> "write_u16", arg |-> self] >>
      [] ty = "u32" -> << [method |-> "write_u32", arg |-> self] >>
      [] ty = "u64" -> << [method |-> "write_u64", arg |-> self] >>
      [] ty = "f32" -> << [method |-> "write_f32", arg |-> self] >>
      [] ty = "f64" -> << [method |-> "write_f64", arg |-> self] >>

\* <ty as Write<__Store>>::write_type(writer): the calls it makes on the TypeWriter.
Write_write_type(ty) ==
    CASE ty = "bool" -> << [method |-> "write_bool"] >>
      [] ty = "i8" -> << [method |-> "write_i8"] >>
      [] ty = "i16" -> << [method |-> "write_i16"] >>
      [] ty = "i32" -> << [method |-> "write_i32"] >>
      [] ty = "i64" -> << [method |-> "write_i64"] >>
      [] ty = "u8" -> << [method |-> "write_u8"] >>
      [] ty = "u16" -> << [method |-> "write_u16"] >>
      [] ty = "u32" -> << [method |-> "write_u32"] >>
      [] ty = "u64" -> << [method |-> "write_u64"] >>
      [] ty = "f32" -> << [method |-> "write_f32"] >>
      [] ty = "f64" -> << [method |-> "write_f64"] >>

\* <ty as Read<__Store>>::read(reader): the calls it makes on the Reader.
Read_read(ty) ==
    CASE ty = "bool" -> << [method |-> "read_bool"] >>
      [] ty = "i8" -> << [method |-> "read_i8"] >>
      [] ty = "i16" -> << [method |-> "read_i16"] >>
      [] ty = "i32" -> << [method |-> "read_i32"] >>
      [] ty = "i64" -> << [method |-> "read_i64"] >>
      [] ty = "u8" -> << [method |-> "read_u8"] >>
      [] ty = "u16" -> << [method |-> "read_u16"] >>
      [] ty = "u32" -> << [method |-> "read_u32"] >>
      [] ty = "u64" -> << [method |-> "read_u64"] >>
      [] ty = "f32" -> << [method |-> "read_f32"] >>
      [] ty = "f64" -> << [method |-> "read_f64"] >>

\* ------------------------------------------------------- LazyStore (wrapper.rs)

\* State::INIT and State::LOCKED, bits of the u8 behind LazyStore::state.
INIT == 1
LOCKED == 2

\* a & b and a | b on u8.
RECURSIVE BitAnd(_, _)
BitAnd(a, b) ==
    IF a = 0 \/ b = 0 THEN 0 ELSE (a % 2) * (b % 2) + 2 * BitAnd(a \div 2, b \div 2)

RECURSIVE BitOr(_, _)
BitOr(a, b) ==
    IF a = 0 THEN b
    ELSE IF b = 0 THEN a
    ELSE (IF a % 2 = 1 \/ b % 2 = 1 THEN 1 ELSE 0) + 2 * BitOr(a \div 2, b \div 2)

State_load(cell) == cell

State_is_init(state) == BitAnd(state, INIT) # 0

State_is_locked(state) == BitAnd(state, LOCKED) # 0

\* State::lock: cell.fetch_or(LOCKED), the value the cell holds afterwards.
State_lock(cell) == BitOr(cell, LOCKED) % 256

\* The tasks that hold a reference to the one LazyStore.
Callers == 1..MaxCallers

\* ------------------------------------------------------------------ state

VARIABLES
    decl,      \* the record declaration under #[derive(StoreData)] (the DeriveInput)
    phase,     \* "declared" | "derived" | "rejected"
    code,      \* the expansion: the three generated companions
    query,     \* the application's Query builder value
    last,      \* the last call into generated code: [op, self, io, calls, result]
    setters,   \* the setter calls made on `query` since Query::default(): field -> argument
    tb,        \* expand_trait_bounds on its own: the list `types`, what it returned
               \* (`bounds`), what it returned for its own output (`again`), and the
               \* requirement lists of the three companions generated for `types` (`impls`)
    described, \* what the Descriptor.write calls made so far emitted into a TypeWriter
               \* that did not fail: the set of their write_field sequences
    scalar,    \* a call of a scalar type's Read / Write impl: [ty, self, op, calls, result]
    lz         \* one LazyStore and the tasks that call get on it: the shared `state`
               \* and `inner`, and per task the position in get (`pc`), the local
               \* `state`, the number of get calls made and what the last one returned

vars == <<decl, phase, code, query, last, setters, tb, described, scalar, lz>>

\* The declarations with n fields: a named-field struct with unique field identifiers.
Decls(n) ==
    { [ident |-> s, idents |-> f, types |-> t, attrs |-> a] :
          s \in StructIdents,
          f \in { g \in [1..n -> FieldIdents] : Injective(g) },
          t \in [1..n -> FieldTypes],
          a \in SeqsUpTo(AttrPool, MaxAttrs) }

\* The type the declaration gives the field `f`.
FieldType(d, f) == d.types[CHOOSE i \in 1..Len(d.idents) : d.idents[i] = f]

\* The values of the declared record type.
Instances(d) ==
    { x \in [Range(d.idents) -> UNION { ValuesOf(ty) : ty \in FieldTypes }] :
        \A f \in Range(d.idents) : x[f] \in ValuesOf(FieldType(d, f)) }

\* The Readers a call of the generated read may meet: call number k is read_field::<T>
\* with T the type of the field the k-th local initialises, so answers[k] is a T.
Readers(d, c) ==
    { r \in [answers : [1..Len(c.read_impl) -> UNION { ValuesOf(ty) : ty \in FieldTypes }],
             failAt : 0..MaxFields, err : Errors] :
        \A k \in 1..Len(c.read_impl) :
            r.answers[k] \in ValuesOf(FieldType(d, c.read_impl[k].local)) }

\* The Reader of a lossless channel: call number k returns the k-th written value.
ChannelReader(written) ==
    [answers |-> [k \in 1..Len(written) |-> written[k].value], failAt |-> 0, err |-> "E1"]

NoBounds ==
    [types |-> <<>>, bounds |-> <<>>, called |-> FALSE,
     again |-> <<>>, reapplied |-> FALSE, impls |-> <<>>]

NoScalar == [ty |-> "bool", self |-> 0, op |-> "none", calls |-> <<>>, result |-> <<>>]

\* The LazyStore as constructed: no inner store, no state bit set, every task outside get.
NewLazy ==
    [state  |-> 0,
     inner  |-> None,
     writes |-> 0,
     pc     |-> [p \in Callers |-> "idle"],
     local  |-> [p \in Callers |-> 0],
     gets   |-> [p \in Callers |-> 0],
     ret    |-> [p \in Callers |-> None]]

NoCall == [op |-> "none", self |-> <<>>, io |-> <<>>, calls |-> <<>>, result |-> <<>>]

Called(op, self, io, run) ==
    [op |-> op, self |-> self, io |-> io, calls |-> run.calls, result |-> run.result]

Init ==
    /\ \E n \in 0..MaxFields : decl \in Decls(n)
    /\ phase = "declared"
    /\ code = <<>>
    /\ query = <<>>
    /\ last = NoCall
    /\ setters = <<>>
    /\ tb = NoBounds
    /\ described = {}
    /\ scalar = NoScalar
    /\ lz = NewLazy

\* The build: the declaration is expanded, or rejected.
Derive ==
    /\ phase = "declared"
    /\ LET expanded == storedata(decl)
       IN  IF expanded.ok
           THEN /\ phase' = "derived"
                /\ code' = expanded.val
                /\ query' = Query_default(expanded.val.query)
           ELSE /\ phase' = "rejected"
                /\ UNCHANGED <<code, query>>
    /\ UNCHANGED <<decl, last, setters, tb, described, scalar, lz>>

\* x.write(&mut writer) for a record value x.
StoreDataWrite ==
    /\ phase = "derived"
    /\ where_clause(code.storedata.trait_bounds)
    /\ last.op = "none"
    /\ \E self \in Instances(decl), writer \in Sinks :
          last' = Called("StoreData::write", self, writer,
                         StoreData_write(code.storedata, self, writer))
    /\ UNCHANGED <<decl, phase, code, query, setters, tb, described, scalar, lz>>

\* T::read(&mut reader) against any Reader.
StoreDataRead ==
    /\ phase = "derived"
    /\ where_clause(code.storedata.trait_bounds)
    /\ last.op = "none"
    /\ \E reader \in Readers(decl, code.storedata) :
          last' = Called("StoreData::read", <<>>, reader,
                         StoreData_read(code.storedata, reader))
    /\ UNCHANGED <<decl, phase, code, query, setters, tb, described, scalar, lz>>

\* T::read(&mut reader) with the Reader of the channel the last, successful
\* x.write filled; `self` keeps the x that was written.
StoreDataReadBack ==
    /\ phase = "derived"
    /\ where_clause(code.storedata.trait_bounds)
    /\ last.op = "StoreData::write"
    /\ last.result.ok
    /\ LET reader == ChannelReader(last.calls)
       IN  last' = Called("StoreData::read(channel)", last.self, reader,
                          StoreData_read(code.storedata, reader))
    /\ UNCHANGED <<decl, phase, code, query, setters, tb, described, scalar, lz>>

\* descriptor.ident()
DescriptorIdent ==
    /\ phase = "derived"
    /\ where_clause(code.descriptor.trait_bounds)
    /\ last.op = "none"
    /\ last' = Called("DataDescriptor::ident", <<>>, <<>>,
                      [calls |-> <<>>, result |-> Descriptor_ident(code.descriptor)])
    /\ UNCHANGED <<decl, phase, code, query, setters, tb, described, scalar, lz>>

\* Faulty variant of DescriptorWrite: the descriptor describes the fields the
\* application's Query value has set (the body of the query's write).
DescriptorWrite_set ==
    /\ phase = "derived"
    /\ where_clause(code.descriptor.trait_bounds)
    /\ last.op = "none"
    /\ \E writer \in Sinks :
          LET set == SelectSeq(code.descriptor.write_impl, LAMBDA st : query[st.key] # None)
              run == descriptor_write_run(set, 1, writer, <<>>)
          IN  /\ last' = Called("DataDescriptor::write", <<>>, writer, run)
              /\ described' = IF run.result.ok THEN described \cup {run.calls} ELSE described
    /\ UNCHANGED <<decl, phase, code, query, setters, tb, scalar, lz>>

\* Descriptor.write(&mut type_writer), on the unit value of the descriptor struct.
DescriptorWrite ==
    /\ phase = "derived"
    /\ where_clause(code.descriptor.trait_bounds)
    /\ last.op = "none"
    /\ \E writer \in Sinks :
          LET run == Descriptor_write(code.descriptor, writer)
          IN  /\ last' = Called("DataDescriptor::write", <<>>, writer, run)
              /\ described' = IF run.result.ok THEN described \cup {run.calls} ELSE described
    /\ UNCHANGED <<decl, phase, code, query, setters, tb, scalar, lz>>

\* Query::default()
QueryDefault ==
    /\ phase = "derived"
    /\ last.op = "none"
    /\ query' = Query_default(code.query)
    /\ setters' = <<>>
    /\ UNCHANGED <<decl, phase, code, last, tb, described, scalar, lz>>

\* query = query.<field>(t), for any generated setter and any value of its type.
QuerySet ==
    /\ phase = "derived"
    /\ last.op = "none"
    /\ \E m \in 1..Len(code.query.methods) :
          \E t \in ValuesOf(code.query.methods[m].arg_ty) :
             /\ query' = Query_set(code.query, query, m, t)
             /\ setters' = [f \in DOMAIN setters \cup {code.query.methods[m].name} |->
                               IF f = code.query.methods[m].name THEN t ELSE setters[f]]
    /\ UNCHANGED <<decl, phase, code, last, tb, described, scalar, lz>>

\* query.write(&mut writer)
QueryWrite ==
    /\ phase = "derived"
    /\ where_clause(code.query.trait_bounds)
    /\ last.op = "none"
    /\ \E writer \in Sinks :
          last' = Called("DataQuery::write", query, writer,
                         Query_write(code.query, query, writer))
    /\ UNCHANGED <<decl, phase, code, query, setters, tb, described, scalar, lz>>

\* The caller is sequential: it takes the outcome of a call and lets go of it before
\* it makes the next one.
Release ==
    /\ last.op # "none"
    /\ last' = NoCall
    /\ UNCHANGED <<decl, phase, code, query, setters, tb, described, scalar, lz>>

Next ==
    \/ Derive
    \/ Release
    \/ StoreDataWrite
    \/ StoreDataRead
    \/ StoreDataReadBack
    \/ DescriptorIdent
    \/ DescriptorWrite
    \/ QueryDefault
    \/ QuerySet
    \/ QueryWrite

Spec == Init /\ [][Next]_vars

\* ------------------------------------- expand_trait_bounds as a pure function

\* A record without fields.
NoDecl == [ident |-> "SomeData", idents |-> <<>>, types |-> <<>>, attrs |-> <<>>]

InitBounds ==
    /\ decl = NoDecl
    /\ phase = "declared"
    /\ code = <<>>
    /\ query = <<>>
    /\ last = NoCall
    /\ setters = <<>>
    /\ described = {}
    /\ scalar = NoScalar
    /\ lz = NewLazy
    /\ tb \in { [NoBounds EXCEPT !.types = t] : t \in SeqsUpTo(BoundTypes, MaxTypes) }

\* expand_trait_bounds(types)
TraitBounds ==
    /\ ~tb.called
    /\ tb' = [tb EXCEPT !.bounds = expand_trait_bounds(tb.types), !.called = TRUE]
    /\ UNCHANGED <<decl, phase, code, query, last, setters, described, scalar, lz>>

\* expand_trait_bounds(bounds), for the list a first call returned.
Reapply ==
    /\ tb.called
    /\ ~tb.reapplied
    /\ tb' = [tb EXCEPT !.again = expand_trait_bounds(tb.bounds), !.reapplied = TRUE]
    /\ UNCHANGED <<decl, phase, code, query, last, setters, described, scalar, lz>>

\* Field identifiers for a record whose field types are a given list.
BoundIdents == <<"f1", "f2", "f3", "f4", "f5", "f6">>

\* expand_macro for a record whose field types are `types`: the requirement lists of
\* the StoreData, DataDescriptor and DataQuery impls it generates.
ExpandCompanions ==
    /\ tb.impls = <<>>
    /\ LET input == [ident |-> "SomeData", idents |-> SubSeq(BoundIdents, 1, Len(tb.types)),
                     types |-> tb.types, attrs |-> <<>>]
           expanded == expand_macro(input).val
       IN  tb' = [tb EXCEPT !.impls = << expanded.storedata.trait_bounds,
                                         expanded.descriptor.trait_bounds,
                                         expanded.query.trait_bounds >>]
    /\ UNCHANGED <<decl, phase, code, query, last, setters, described, scalar, lz>>

NextBounds ==
    \/ TraitBounds
    \/ Reapply
    \/ ExpandCompanions

SpecBounds == InitBounds /\ [][NextBounds]_vars

\* --------------------------------------- the scalar impls, one call at a time

InitScalars ==
    /\ decl = NoDecl
    /\ phase = "declared"
    /\ code = <<>>
    /\ query = <<>>
    /\ last = NoCall
    /\ setters = <<>>
    /\ tb = NoBounds
    /\ described = {}
    /\ lz = NewLazy
    /\ scalar \in UNION { { [NoScalar EXCEPT !.ty = ty, !.self = v] : v \in ValuesOf(ty) } :
                          ty \in ScalarTypes }

\* What a sink method may answer.
SinkAnswers == {Ok("unit")} \cup { Err(e) : e \in Errors }

\* self.write(&mut writer): the impl returns what the Writer's method returned.
ScalarWrite ==
    /\ scalar.op = "none"
    /\ \E answer \in SinkAnswers :
          scalar' = [scalar EXCEPT !.op = "Write::write",
                                   !.calls = Write_write(scalar.ty, scalar.self),
                                   !.result = answer]
    /\ UNCHANGED <<decl, phase, code, query, last, setters, tb, described, lz>>

\* <ty>::write_type(&mut type_writer)
ScalarWriteType ==
    /\ scalar.op = "none"
    /\ \E answer \in SinkAnswers :
          scalar' = [scalar EXCEPT !.op = "Write::write_type",
                                   !.calls = Write_write_type(scalar.ty),
                                   !.result = answer]
    /\ UNCHANGED <<decl, phase, code, query, last, setters, tb, described, lz>>

\* <ty>::read(&mut reader): the impl returns what the Reader's method returned.
ScalarRead ==
    /\ scalar.op = "none"
    /\ \E answer \in { Ok(v) : v \in ValuesOf(scalar.ty) } \cup { Err(e) : e \in Errors } :
          scalar' = [scalar EXCEPT !.op = "Read::read",
                                   !.calls = Read_read(scalar.ty),
                                   !.result = answer]
    /\ UNCHANGED <<decl, phase, code, query, last, setters, tb, described, lz>>

NextScalars ==
    \/ ScalarWrite
    \/ ScalarWriteType
    \/ ScalarRead

SpecScalars == InitScalars /\ [][NextScalars]_vars

\* ------------------------------------------- LazyStore::get, statement by statement

InitLazy ==
    /\ decl = NoDecl
    /\ phase = "declared"
    /\ code = <<>>
    /\ query = <<>>
    /\ last = NoCall
    /\ setters = <<>>
    /\ tb = NoBounds
    /\ described = {}
    /\ scalar = NoScalar
    /\ lz = NewLazy

\* let mut state = State::load(&self.state); if state.is_init() { return Ok(inner) }
GetLoad(p) ==
    /\ lz.pc[p] = "idle"
    /\ lz.gets[p] < MaxGets
    /\ LET state == State_load(lz.state)
       IN  lz' = [lz EXCEPT !.gets[p] = @ + 1,
                            !.local[p] = state,
                            !.ret[p] = IF State_is_init(state) THEN Ok(lz.inner) ELSE None,
                            !.pc[p] = IF State_is_init(state) THEN "done" ELSE "while"]
    /\ UNCHANGED <<decl, phase, code, query, last, setters, tb, described, scalar>>

\* while state.is_locked() { state = State::load(&self.state); notified().await }
\* The task parks at the await; the source holds no call that notifies on_unlock, so
\* no step leads out of "await".
GetWhile(p) ==
    /\ lz.pc[p] = "while"
    /\ IF State_is_locked(lz.local[p])
       THEN lz' = [lz EXCEPT !.local[p] = State_load(lz.state), !.pc[p] = "await"]
       ELSE lz' = [lz EXCEPT !.pc[p] = "check"]
    /\ UNCHANGED <<decl, phase, code, query, last, setters, tb, described, scalar>>

\* if self.inner.is_none() { S::connect(&self.uri) .. } else: Ok(self.inner.as_ref().unwrap())
GetCheck(p) ==
    /\ lz.pc[p] = "check"
    /\ IF lz.inner = None
       THEN lz' = [lz EXCEPT !.pc[p] = "connect"]
       ELSE lz' = [lz EXCEPT !.pc[p] = "done", !.ret[p] = Ok(lz.inner)]
    /\ UNCHANGED <<decl, phase, code, query, last, setters, tb, described, scalar>>

\* S::connect(&self.uri).await returns: Err(e) leaves get by `?`; Ok(s) is stored in
\* self.inner and returned. The store that task p connected is known as p.
ConnectReturns(p) ==
    /\ lz.pc[p] = "connect"
    /\ \E connected \in {Ok(p)} \cup { Err(e) : e \in Errors } :
          IF connected.ok
          THEN lz' = [lz EXCEPT !.inner = Some(connected.val),
                               !.writes = @ + 1,
                               !.pc[p] = "done",
                               !.ret[p] = Ok(Some(connected.val))]
          ELSE lz' = [lz EXCEPT !.pc[p] = "done", !.ret[p] = connected]
    /\ UNCHANGED <<decl, phase, code, query, last, setters, tb, described, scalar>>

\* The task takes what get returned.
GetReturn(p) ==
    /\ lz.pc[p] = "done"
    /\ lz' = [lz EXCEPT !.pc[p] = "idle", !.ret[p] = None]
    /\ UNCHANGED <<decl, phase, code, query, last, setters, tb, described, scalar>>

\* State::lock(&self.state)
StateLock ==
    /\ ~State_is_locked(lz.state)
    /\ lz' = [lz EXCEPT !.state = State_lock(lz.state)]
    /\ UNCHANGED <<decl, phase, code, query, last, setters, tb, described, scalar>>

\* A step of task p inside or around get.
Get(p) ==
    \/ GetLoad(p)
    \/ GetWhile(p)
    \/ GetCheck(p)
    \/ ConnectReturns(p)
    \/ GetReturn(p)

NextLazy ==
    \/ \E p \in Callers : GetLoad(p)
    \/ \E p \in Callers : GetWhile(p)
    \/ \E p \in Callers : GetCheck(p)
    \/ \E p \in Callers : ConnectReturns(p)
    \/ \E p \in Callers : GetReturn(p)
    \/ StateLock

SpecLazy == InitLazy /\ [][NextLazy]_vars

\* ----------------------------------------------------------------- claims

\* What the declaration says, for stating the claims: the fields in declaration order.
N == Len(decl.idents)

NeverFails(io) == io.failAt = 0

FailsAt(io, k) == io.failAt = k

\* C1: against a TypeWriter that never fails, Descriptor.write issues exactly one
\* write_field per declared field, (name_i, tag of type_i), in declaration order.
C1_DescriptorWriteOrder ==
    (last.op = "DataDescriptor::write" /\ NeverFails(last.io)) =>
        last.calls = [i \in 1..N |-> [key |-> decl.idents[i], tag |-> write_type(decl.types[i])]]

C1_Witness ==
    /\ last.op = "DataDescriptor::write"
    /\ NeverFails(last.io)
    /\ decl.idents = <<"x", "id">>
    /\ decl.types = <<"i64", "u8">>
    /\ last.calls = << [key |-> "x", tag |-> "I64"], [key |-> "id", tag |-> "U8"] >>

\* C2: name resolution: a record declared without override has a Descriptor whose
\* ident() is the record's identifier; a record declared with #[datastore(name = "X")]
\* has a Descriptor whose ident() is "X".
C2_NameResolution ==
    phase # "declared" =>
        /\ decl.attrs = <<>> =>
              /\ phase = "derived"
              /\ Descriptor_ident(code.descriptor) = decl.ident
        /\ \A X \in {"people", "name"} :
              decl.attrs = << [path |-> "datastore", key |-> "name", lit |-> "str", value |-> X] >> =>
                  /\ phase = "derived"
                  /\ Descriptor_ident(code.descriptor) = X

\* The fields a setter was called for, in declaration order, with the argument given.
SetFieldWrites ==
    LET set == SelectSeq(decl.idents, LAMBDA f : f \in DOMAIN setters)
    IN  [i \in 1..Len(set) |-> [key |-> set[i], value |-> setters[set[i]]]]

\* C3: against a Writer that never fails, Query.write issues exactly one write_field
\* per field a setter was called for, with the field's name and the value set, in
\* declaration order, and nothing for the other fields; a fresh Query issues none.
C3_QueryPartiality ==
    (last.op = "DataQuery::write" /\ NeverFails(last.io)) =>
        /\ last.calls = SetFieldWrites
        /\ Len(last.calls) = Cardinality(DOMAIN setters)

C3_Witness ==
    /\ last.op = "DataQuery::write"
    /\ NeverFails(last.io)
    /\ N = 2
    /\ DOMAIN setters = {decl.idents[2]}
    /\ last.calls = << [key |-> decl.idents[2], value |-> 255] >>

\* C4: against a Writer that never fails, StoreData.write issues exactly one
\* write_field(name_i, value_i) per field, in declaration order, with the instance's
\* value of the field, and returns Ok(()).
C4_StoreDataWriteAll ==
    (last.op = "StoreData::write" /\ NeverFails(last.io)) =>
        /\ last.calls = [i \in 1..N |-> [key |-> decl.idents[i], value |-> last.self[decl.idents[i]]]]
        /\ last.result = Ok("unit")

C4_Witness ==
    /\ last.op = "StoreData::write"
    /\ NeverFails(last.io)
    /\ decl.idents = <<"name", "id">>
    /\ last.calls = << [key |-> "name", value |-> 255], [key |-> "id", value |-> -1] >>
    /\ last.result.ok

\* C5: if the Writer's write_field fails for field k, StoreData.write has called
\* write_field for the fields 1..k in order, once each, for no later field, and
\* returns the Writer's error.
C5_StoreDataWriteAbort ==
    \A k \in 1..N :
        (last.op = "StoreData::write" /\ FailsAt(last.io, k)) =>
            /\ last.calls = [i \in 1..k |-> [key |-> decl.idents[i], value |-> last.self[decl.idents[i]]]]
            /\ last.result = Err(last.io.err)

C5_Witness ==
    /\ last.op = "StoreData::write"
    /\ N = 2
    /\ FailsAt(last.io, 1)
    /\ Len(last.calls) = 1
    /\ last.result = Err("E2")

\* C6: against a Reader that never fails, StoreData.read issues exactly one
\* read_field(name_i) per field, in declaration order, and returns a record whose
\* field i holds what the i-th read_field returned.
C6_StoreDataReadAll ==
    (last.op = "StoreData::read" /\ NeverFails(last.io)) =>
        /\ last.calls = [i \in 1..N |-> [key |-> decl.idents[i]]]
        /\ last.result.ok
        /\ DOMAIN last.result.val = Range(decl.idents)
        /\ \A i \in 1..N : last.result.val[decl.idents[i]] = last.io.answers[i]

C6_Witness ==
    /\ last.op = "StoreData::read"
    /\ NeverFails(last.io)
    /\ N = 2
    /\ last.io.answers = <<255, 0>>
    /\ last.result.ok
    /\ last.result.val[decl.idents[1]] = 255
    /\ last.result.val[decl.idents[2]] = 0

\* C7: if read_field fails for field k, StoreData.read issues no read_field for a
\* later field and returns that error, not a record; it returns a record only when
\* all the read_field calls succeeded.
C7_StoreDataReadAbort ==
    last.op = "StoreData::read" =>
        /\ \A k \in 1..N :
              FailsAt(last.io, k) =>
                  /\ last.calls = [i \in 1..k |-> [key |-> decl.idents[i]]]
                  /\ last.result = Err(last.io.err)
        /\ last.result.ok =>
              /\ Len(last.calls) = N
              /\ \A k \in 1..N : ReaderAnswer(last.io, k).ok

C7_Witness ==
    /\ last.op = "StoreData::read"
    /\ N = 2
    /\ FailsAt(last.io, 1)
    /\ Len(last.calls) = 1
    /\ last.result = Err("E1")

\* C8: round trip: StoreData.read over the lossless channel that StoreData.write(x)
\* filled succeeds and returns a record equal to x.
C8_RoundTrip ==
    last.op = "StoreData::read(channel)" => last.result = Ok(last.self)

C8_Witness ==
    /\ last.op = "StoreData::read(channel)"
    /\ N = 2
    /\ decl.types[1] = decl.types[2]
    /\ last.self[decl.idents[1]] # last.self[decl.idents[2]]
    /\ last.result.ok
    /\ last.result.val = last.self

\* C9: for a record without fields, StoreData.write, Descriptor.write and Query.write
\* issue no write_field and return Ok(()), and StoreData.read issues no read_field and
\* returns the empty record, whatever the Writer, TypeWriter or Reader would answer.
C9_ZeroFields ==
    (phase = "derived" /\ N = 0) =>
        /\ last.op \in {"StoreData::write", "DataDescriptor::write", "DataQuery::write"} =>
              /\ last.calls = <<>>
              /\ last.result = Ok("unit")
        /\ last.op = "StoreData::read" =>
              /\ last.calls = <<>>
              /\ last.result.ok
              /\ DOMAIN last.result.val = {}

C9_Witness ==
    /\ phase = "derived"
    /\ N = 0
    /\ last.op = "DataDescriptor::write"
    /\ FailsAt(last.io, 1)
    /\ last.calls = <<>>
    /\ last.result.ok

\* C10: the requirement list of expand_trait_bounds holds every distinct type of its
\* input exactly once and no type that is not in the input.
C10_BoundsDeduplicated ==
    tb.called =>
        /\ Range(tb.bounds) = Range(tb.types)
        /\ Injective(tb.bounds)

C10_Witness ==
    /\ tb.called
    /\ tb.types = <<"u8", "i64", "u8", "u8">>
    /\ tb.bounds = <<"u8", "i64">>

\* The subsequence of s that keeps, of each distinct entry, the first occurrence only.
FirstOccurrences(s) ==
    LET keep == { i \in 1..Len(s) : \A j \in 1..(i - 1) : s[j] # s[i] }
    IN  [k \in 1..Cardinality(keep) |->
            s[CHOOSE i \in keep : Cardinality({ j \in keep : j <= i }) = k]]

\* C11: the output of expand_trait_bounds is its input with only the first occurrence
\* of each distinct type kept, so it is never longer than the input and as long as
\* the input exactly when the input repeats no type.
C11_FirstOccurrenceOrder ==
    tb.called =>
        /\ tb.bounds = FirstOccurrences(tb.types)
        /\ Len(tb.bounds) <= Len(tb.types)
        /\ (Len(tb.bounds) = Len(tb.types)) <=> Injective(tb.types)

C11_Witness ==
    /\ tb.called
    /\ tb.types = <<"i64", "u8", "i64", "bool">>
    /\ tb.bounds = <<"i64", "u8", "bool">>

\* C12: expand_trait_bounds applied to its own output returns that output, a second
\* application to the same input returns the same list, and the StoreData, Descriptor
\* and Query impls generated for one record carry the same requirement list.
C12_BoundsIdempotent ==
    /\ tb.reapplied => tb.again = tb.bounds
    /\ tb.impls # <<>> =>
          /\ tb.impls[1] = tb.impls[2]
          /\ tb.impls[2] = tb.impls[3]
          /\ tb.called => tb.impls[1] = tb.bounds

C12_Witness ==
    /\ tb.types = <<"u8", "u8", "i64">>
    /\ tb.reapplied
    /\ tb.again = <<"u8", "i64">>
    /\ tb.impls = << <<"u8", "i64">>, <<"u8", "i64">>, <<"u8", "i64">> >>

\* C13: if the sink's write_field fails for the k-th field (for Query.write: the k-th
\* set field), Descriptor.write and Query.write have issued write_field for the fields
\* up to the k-th in order, once each, for no later one, and return the sink's error.
C13_SchemaQueryWriteAbort ==
    /\ \A k \in 1..N :
          (last.op = "DataDescriptor::write" /\ FailsAt(last.io, k)) =>
              /\ last.calls = [i \in 1..k |-> [key |-> decl.idents[i],
                                               tag |-> write_type(decl.types[i])]]
              /\ last.result = Err(last.io.err)
    /\ \A k \in 1..Len(SetFieldWrites) :
          (last.op = "DataQuery::write" /\ FailsAt(last.io, k)) =>
              /\ last.calls = SubSeq(SetFieldWrites, 1, k)
              /\ last.result = Err(last.io.err)

C13_Witness ==
    /\ last.op = "DataQuery::write"
    /\ N = 2
    /\ Cardinality(DOMAIN setters) = 2
    /\ FailsAt(last.io, 1)
    /\ last.calls = << [key |-> decl.idents[1], value |-> setters[decl.idents[1]]] >>
    /\ last.result = Err("E1")

\* C14: the Descriptor is stateless: Descriptor.write takes no record value, every
\* call it issues carries a field name and the tag the field's type reports through
\* write_type and no value, and all the Descriptor.write calls of a run, whatever record
\* and query operations came between them, emit the same sequence.
C14_DescriptorStateless ==
    /\ Cardinality(described) <= 1
    /\ last.op = "DataDescriptor::write" =>
          /\ last.self = <<>>
          /\ \A i \in 1..Len(last.calls) :
                /\ DOMAIN last.calls[i] = {"key", "tag"}
                /\ last.calls[i].tag = write_type(decl.types[i])
          /\ last.result.ok => described = {last.calls}

C14_Witness ==
    /\ last.op = "DataQuery::write"
    /\ N = 2
    /\ Len(last.calls) = 1
    /\ described = { << [key |-> decl.idents[1], tag |-> "U8"],
                        [key |-> decl.idents[2], tag |-> "I64"] >> }

\* C15: each of the eleven scalar types makes exactly one call per operation, on the
\* method of its own kind: Write::write calls write_<ty> with the value, write_type
\* calls the TypeWriter's write_<ty>, Read::read calls read_<ty>; the value and the
\* sink's answer pass through unchanged.
C15_ScalarOwnTag ==
    /\ scalar.op = "Write::write" =>
          scalar.calls = << [method |-> "write_" \o scalar.ty, arg |-> scalar.self] >>
    /\ scalar.op = "Write::write_type" =>
          scalar.calls = << [method |-> "write_" \o scalar.ty] >>
    /\ scalar.op = "Read::read" =>
          scalar.calls = << [method |-> "read_" \o scalar.ty] >>

C15_Witness ==
    /\ scalar.op = "Write::write"
    /\ scalar.ty = "u16"
    /\ scalar.self = 65535
    /\ scalar.calls = << [method |-> "write_u16", arg |-> 65535] >>
    /\ scalar.result.ok

\* The calls into the generated trait impls that write or read.
TraitCalls ==
    {"StoreData::write", "StoreData::read", "StoreData::read(channel)",
     "DataDescriptor::write", "DataQuery::write"}

\* C16 as stated: a record with a field whose type lacks the Write / Read pair is
\* rejected when it is defined.
C16_RejectedAtDefinition ==
    (\E i \in 1..N : ~Implements(decl.types[i])) => phase # "derived"

\* C16, amended: the derive accepts a record whatever its field types and emits each
\* type unchanged in the requirements, the described types, the query slots and the
\* setters; a write or read of the generated impls runs only if every field type has
\* the Write / Read pair, and then fails only with an error of the sink.
C16_RejectedBeforeUse ==
    phase = "derived" =>
        /\ Range(code.storedata.trait_bounds) = Range(decl.types)
        /\ Range(code.descriptor.trait_bounds) = Range(decl.types)
        /\ Range(code.query.trait_bounds) = Range(decl.types)
        /\ \A i \in 1..N :
              /\ code.descriptor.write_impl[i].ty = decl.types[i]
              /\ code.query.fields[i].ty = decl.types[i]
              /\ code.query.methods[i].arg_ty = decl.types[i]
        /\ last.op \in TraitCalls =>
              /\ \A i \in 1..N : Implements(decl.types[i])
              /\ NeverFails(last.io) => last.result.ok

C16_Witness ==
    /\ phase = "derived"
    /\ decl.types = <<"u8", "usize">>
    /\ code.storedata.trait_bounds = <<"u8", "usize">>
    /\ query[decl.idents[2]] = Some(7)
    /\ last.op = "none"

\* C17: single-flight connect: at any time at most one task is inside S::connect, the
\* inner store is written at most once, and a get that finds the store initialised
\* returns the stored inner store.
C17_SingleFlight ==
    /\ Cardinality({ p \in Callers : lz.pc[p] = "connect" }) <= 1
    /\ lz.writes <= 1
    /\ \A p \in Callers :
          (lz.pc[p] = "done" /\ lz.ret[p].ok) => lz.ret[p].val = lz.inner

SlotWrites(q) ==
    LET set == SelectSeq(decl.idents, LAMBDA f : q[f] # None)
    IN  [i \in 1..Len(set) |-> [key |-> set[i], value |-> q[set[i]][1]]]

\* The slots of the Query hold, per field, the argument of the last call of its setter
\* since Query::default(), and None for a field whose setter was not called.
SlotsHoldLastSet ==
    phase = "derived" =>
        \A f \in DOMAIN query :
            query[f] = IF f \in DOMAIN setters THEN Some(setters[f]) ELSE None

\* A step changes at most one slot, to Some, unless it is Query::default().
OneSlotChanges ==
    phase = "derived" =>
        \/ \A f \in DOMAIN query : query'[f] = None
        \/ \A f \in DOMAIN query :
              query'[f] # query[f] =>
                  /\ query'[f] # None
                  /\ \A g \in DOMAIN query \ {f} : query'[g] = query[g]

\* C19: a setter sets its own slot to the value given and leaves every other slot as it
\* was; calling it again replaces the value and a slot never goes back to unset; what
\* Query.write emits is a function of the final slots, not of the order of the calls.
C19_SetterFrame ==
    /\ [](SlotsHoldLastSet
          /\ ((last.op = "DataQuery::write" /\ NeverFails(last.io)) =>
                 last.calls = SlotWrites(last.self)))
    /\ [][OneSlotChanges]_vars

C19_Witness ==
    /\ phase = "derived"
    /\ decl.types = <<"u8", "u8">>
    /\ setters = [f \in Range(decl.idents) |-> IF f = decl.idents[1] THEN 255 ELSE 0]
    /\ query[decl.idents[1]] = Some(255)
    /\ query[decl.idents[2]] = Some(0)
    /\ last.op = "DataQuery::write"
    /\ Len(last.calls) = 2

====
